---------------------------- MODULE Spec2Model ----------------------------
(***************************************************************************)
(* Rules engine of the Ludo game in src/game.js: gameState, the legality   *)
(* predicates, moveToken with its step-by-step animation timers,           *)
(* killTokensAt, finalizeMove, checkWin and the two input handlers         *)
(* onRollDice and onTokenClick.                                            *)
(*                                                                         *)
(* DOM writes (highlights, the roll button, texts, pixel coordinates) are  *)
(* presentation only and are left out; the handlers are operations that    *)
(* can be invoked in any state, and setTimeout callbacks are separate      *)
(* actions that fire later.                                                *)
(***************************************************************************)
EXTENDS Integers, Sequences, FiniteSets, TLC

\* ---------------------------------------------------------------- constants

PLAYER_COLORS == <<"red", "blue", "green", "yellow">>

TOKEN_COUNT == 4

START_INDICES == [red |-> 0, blue |-> 13, green |-> 26, yellow |-> 39]

HOME_ENTRY_INDICES == [red |-> 50, blue |-> 11, green |-> 24, yellow |-> 37]

SAFE_SPOTS == {0, 8, 13, 21, 26, 34, 39, 47}

\* gameState.diceRoll === null
NoDice == 0

\* gameState.winner === null
NoWinner == "none"

\* Math.floor(Math.random() * 6) + 1
DiceValues == 1..6

\* The JavaScript value undefined, as a position that equals no token's pos,
\* is no safe spot and is not >= 100.
Undefined == -2

Colors == {PLAYER_COLORS[k] : k \in 1..Len(PLAYER_COLORS)}

TokenIdx == 0..(TOKEN_COUNT - 1)

\* ------------------------------------------------------------------- bounds

\* Number of accepted rolls explored from each starting board.
MaxRolls == 2

\* ---------------------------------------------------------------- variables

VARIABLES
    tokens,              \* gameState.tokens[color][i].pos
    currentPlayerIndex,  \* gameState.currentPlayerIndex, 0-based
    diceRoll,            \* gameState.diceRoll (NoDice for null)
    rollCount,           \* gameState.rollCount
    isRolling,           \* gameState.isRolling
    winner,              \* gameState.winner (NoWinner for null)
    anim,                \* the pending 160ms timer of animateTokenMovement
    passTimers,          \* pending 1000ms auto-pass timers, oldest first
    nRolls,              \* accepted rolls so far (exploration bound)
    last                 \* the last operation that ran (history)

gameState == <<tokens, currentPlayerIndex, diceRoll, rollCount, isRolling, winner>>

vars == <<tokens, currentPlayerIndex, diceRoll, rollCount, isRolling, winner,
          anim, passTimers, nRolls, last>>

\* ------------------------------------------------------------------ helpers

CurrentColor == PLAYER_COLORS[currentPlayerIndex + 1]

getNextPlayerIndex == (currentPlayerIndex + 1) % Len(PLAYER_COLORS)

isSafeSpot(pos) == pos \in SAFE_SPOTS

isHomePosition(pos) == pos >= 100

\* isOccupiedByPlayer with the loop started at i = 1.
isOccupiedByPlayerIn_FromOne(tk, playerColor, pos) ==
    \E i \in TokenIdx \ {0} : tk[playerColor][i] = pos

isOccupiedByPlayerIn(tk, playerColor, pos) ==
    \E i \in TokenIdx : tk[playerColor][i] = pos

isOccupiedByPlayer(playerColor, pos) == isOccupiedByPlayerIn(tokens, playerColor, pos)

\* canMoveToken, pos === -1, with the start square tested for tokens of any
\* colour instead of own tokens.
canMoveFromBase_AnyColorBlocks(tk, playerColor, dice) ==
    dice = 6 /\ \A c \in Colors :
                  ~isOccupiedByPlayerIn(tk, c, START_INDICES[playerColor])

\* canMoveToken, pos === -1: out of the base with a 6 onto a start square
\* that holds no own token.
canMoveFromBase(tk, playerColor, dice) ==
    dice = 6 /\ ~isOccupiedByPlayerIn(tk, playerColor, START_INDICES[playerColor])

\* canMoveToken, 0 <= pos < 52, without the isOccupiedByPlayer tests.
canMoveOnTrack_NoOwnTest(tk, playerColor, pos, dice) ==
    LET startIndex == pos
        homeEntryIndex == HOME_ENTRY_INDICES[playerColor]
        distToHomeEntry == (homeEntryIndex - startIndex + 52) % 52
    IN  IF dice <= distToHomeEntry THEN TRUE
        ELSE dice - distToHomeEntry - 1 < 6

\* canMoveToken, 0 <= pos < 52: along the main path or into the home path.
canMoveOnTrack(tk, playerColor, pos, dice) ==
    LET startIndex == pos
        homeEntryIndex == HOME_ENTRY_INDICES[playerColor]
        distToHomeEntry == (homeEntryIndex - startIndex + 52) % 52
    IN  IF dice <= distToHomeEntry THEN
            LET nextPos == (startIndex + dice) % 52
            IN  ~isOccupiedByPlayerIn(tk, playerColor, nextPos)
        ELSE
            LET stepsIntoHome == dice - distToHomeEntry - 1
            IN  IF stepsIntoHome >= 6 THEN FALSE
                ELSE ~isOccupiedByPlayerIn(tk, playerColor, 100 + stepsIntoHome)

\* canMoveToken, pos >= 100, with Home(5) open to any number of own tokens.
canMoveInHome_FinishShared(tk, playerColor, pos, dice) ==
    LET homeIndex == pos - 100
        targetHomeIndex == homeIndex + dice
    IN  IF targetHomeIndex >= 6 THEN FALSE
        ELSE targetHomeIndex = 5
             \/ ~isOccupiedByPlayerIn(tk, playerColor, 100 + targetHomeIndex)

\* canMoveToken, pos >= 100, with the overshoot test written > 6.
canMoveInHome_OffByOne(tk, playerColor, pos, dice) ==
    LET homeIndex == pos - 100
        targetHomeIndex == homeIndex + dice
    IN  IF targetHomeIndex > 6 THEN FALSE
        ELSE ~isOccupiedByPlayerIn(tk, playerColor, 100 + targetHomeIndex)

\* canMoveToken, pos >= 100: further up the home path.
canMoveInHome(tk, playerColor, pos, dice) ==
    LET homeIndex == pos - 100
        targetHomeIndex == homeIndex + dice
    IN  IF targetHomeIndex >= 6 THEN FALSE
        ELSE ~isOccupiedByPlayerIn(tk, playerColor, 100 + targetHomeIndex)

canMoveTokenIn(tk, playerColor, pos, dice) ==
    IF pos = -1 THEN canMoveFromBase(tk, playerColor, dice)
    ELSE IF pos >= 0 /\ pos < 52 THEN canMoveOnTrack(tk, playerColor, pos, dice)
    ELSE IF pos >= 100 THEN canMoveInHome(tk, playerColor, pos, dice)
    ELSE FALSE

canMoveToken(playerColor, pos, dice) == canMoveTokenIn(tokens, playerColor, pos, dice)

\* canAnyTokenMove with the second loop looking at tokens on the main path
\* only.
canAnyTokenMove_TrackOnly(playerColor, diceValue) ==
    \/ /\ diceValue = 6
       /\ \E i \in TokenIdx :
            /\ tokens[playerColor][i] = -1
            /\ ~isOccupiedByPlayer(playerColor, START_INDICES[playerColor])
    \/ \E i \in TokenIdx :
            /\ tokens[playerColor][i] \in 0..51
            /\ canMoveToken(playerColor, tokens[playerColor][i], diceValue)

canAnyTokenMove(playerColor, diceValue) ==
    \/ /\ diceValue = 6
       /\ \E i \in TokenIdx :
            /\ tokens[playerColor][i] = -1
            /\ ~isOccupiedByPlayer(playerColor, START_INDICES[playerColor])
    \/ \E i \in TokenIdx :
            /\ tokens[playerColor][i] # -1
            /\ canMoveToken(playerColor, tokens[playerColor][i], diceValue)

\* The tokens after killTokensAt(pos, exceptPlayer) has run on tk.
killTokensAt(tk, pos, exceptPlayer) ==
    IF isSafeSpot(pos) \/ isHomePosition(pos) THEN tk
    ELSE [c \in Colors |->
            [i \in TokenIdx |->
                IF c # exceptPlayer /\ tk[c][i] = pos THEN -1 ELSE tk[c][i]]]

\* moveToken's path without the turn into the home path: a token on the main
\* path walks on round the board.
MovePath_NoHomeTurn(color, startPos, diceValue) ==
    IF startPos = -1 THEN
        <<START_INDICES[color]>>
    ELSE IF startPos >= 0 /\ startPos < 52 THEN
        [i \in 1..diceValue |-> (startPos + i) % 52]
    ELSE
        LET homeIndex == startPos - 100
        IN  [i \in 1..diceValue |-> 100 + homeIndex + i]

\* moveToken's path with the home-path loop written i < stepsIntoHome.
MovePath_ShortHome(color, startPos, diceValue) ==
    IF startPos = -1 THEN
        <<START_INDICES[color]>>
    ELSE IF startPos >= 0 /\ startPos < 52 THEN
        LET homeEntry == HOME_ENTRY_INDICES[color]
            distToHomeEntry == (homeEntry - startPos + 52) % 52
        IN  IF diceValue <= distToHomeEntry THEN
                [i \in 1..diceValue |-> (startPos + i) % 52]
            ELSE
                LET stepsOnMain == distToHomeEntry
                    stepsIntoHome == diceValue - stepsOnMain - 1
                IN  [i \in 1..stepsOnMain |-> (startPos + i) % 52]
                    \o [i \in 1..stepsIntoHome |-> 100 + (i - 1)]
    ELSE
        LET homeIndex == startPos - 100
        IN  [i \in 1..diceValue |-> 100 + homeIndex + i]

\* The step list moveToken hands to animateTokenMovement.
MovePath(color, startPos, diceValue) ==
    IF startPos = -1 THEN
        <<START_INDICES[color]>>
    ELSE IF startPos >= 0 /\ startPos < 52 THEN
        LET homeEntry == HOME_ENTRY_INDICES[color]
            distToHomeEntry == (homeEntry - startPos + 52) % 52
        IN  IF diceValue <= distToHomeEntry THEN
                [i \in 1..diceValue |-> (startPos + i) % 52]
            ELSE
                LET stepsOnMain == distToHomeEntry
                    stepsIntoHome == diceValue - stepsOnMain - 1
                IN  [i \in 1..stepsOnMain |-> (startPos + i) % 52]
                    \o [i \in 1..(stepsIntoHome + 1) |-> 100 + (i - 1)]
    ELSE
        LET homeIndex == startPos - 100
        IN  [i \in 1..diceValue |-> 100 + homeIndex + i]

\* Whether the completion callback moveToken installs calls killTokensAt.
MoveKills(color, startPos, diceValue) ==
    IF startPos = -1 THEN TRUE
    ELSE IF startPos >= 0 /\ startPos < 52 THEN
        diceValue <= (HOME_ENTRY_INDICES[color] - startPos + 52) % 52
    ELSE FALSE

\* path[path.length - 1] as the completion callback evaluates it.
LastOf(path) == IF Len(path) = 0 THEN Undefined ELSE path[Len(path)]

\* A completion callback that sends home every opponent on the square the
\* moved token stands on, the safe squares included.
killAfterMove_AtLanding(tk, path, color) ==
    [c \in Colors |->
        [i \in TokenIdx |->
            IF c # color /\ tk[c][i] = tk[color][anim.token] THEN -1 ELSE tk[c][i]]]

\* The first statement of the completion callback of a move out of the base
\* or along the main path: killTokensAt(path[path.length - 1], color).  path is
\* the array animateTokenMovement has been shifting the steps off.
killAfterMove(tk, path, color) == killTokensAt(tk, LastOf(path), color)

\* checkWin with tokens.some in place of tokens.every.
checkWin_Some(tk, color, w) ==
    IF \E i \in TokenIdx : tk[color][i] = 105 THEN color ELSE w

\* The winner after checkWin(color) has run on tk with winner w.
checkWin(tk, color, w) ==
    IF \A i \in TokenIdx : tk[color][i] = 105 THEN color ELSE w

NoAnim == [active |-> FALSE, color |-> "red", token |-> 0, from |-> -1,
           stepPos |-> -1, steps |-> <<>>, dice |-> NoDice, kill |-> FALSE]

NoOp == [op |-> "init", color |-> "red", token |-> 0, from |-> -1, dice |-> NoDice]

\* ----------------------------------------------------------- starting boards

AllInBase == [c \in Colors |-> [i \in TokenIdx |-> -1]]

Board(r, b, g, y) ==
    [red    |-> [i \in TokenIdx |-> r[i + 1]],
     blue   |-> [i \in TokenIdx |-> b[i + 1]],
     green  |-> [i \in TokenIdx |-> g[i + 1]],
     yellow |-> [i \in TokenIdx |-> y[i + 1]]]

InBase == <<-1, -1, -1, -1>>

\* Positions of a game in progress, each with the player to roll next.  The
\* first is the new game of initTokens; every other one is reached from it by
\* moving the tokens one at a time while the other players roll and pass.
StartBoards ==
    { [tokens |-> AllInBase, cur |-> 0],
      \* red and blue meet near blue's start square
      [tokens |-> Board(<<5, 12, -1, -1>>, <<8, 14, -1, -1>>, InBase, InBase), cur |-> 0],
      \* red about to enter its home lane and to finish a token
      [tokens |-> Board(<<104, 101, 49, -1>>, <<13, -1, -1, -1>>, InBase, InBase), cur |-> 0],
      \* red with a finished token, yellow on red's start square
      [tokens |-> Board(<<105, 104, 102, -1>>, InBase, InBase, <<0, -1, -1, -1>>), cur |-> 0],
      \* green and yellow next to their home entries, yellow to roll
      [tokens |-> Board(<<39, 43, -1, -1>>, InBase, <<23, 21, -1, -1>>, <<36, 40, 103, -1>>),
       cur |-> 3],
      \* red three squares before its home entry, blue with its four tokens
      \* stacked up the home lane so that no dice value moves any of them
      [tokens |-> Board(<<47, -1, -1, -1>>, <<105, 104, 103, 102>>, InBase, InBase),
       cur |-> 0] }

Init ==
    /\ \E b \in StartBoards :
          /\ tokens = b.tokens
          /\ currentPlayerIndex = b.cur
    /\ diceRoll = NoDice
    /\ rollCount = 0
    /\ isRolling = FALSE
    /\ winner = NoWinner
    /\ anim = NoAnim
    /\ passTimers = <<>>
    /\ nRolls = 0
    /\ last = NoOp

\* ------------------------------------------------------------------ actions

\* finalizeMove without the diceValue === 6 branch: the turn always advances.
finalizeMove_AlwaysAdvance(tk, color, diceValue) ==
    /\ tokens' = tk
    /\ currentPlayerIndex' = getNextPlayerIndex
    /\ diceRoll' = NoDice
    /\ rollCount' = 0
    /\ isRolling' = FALSE
    /\ winner' = checkWin(tk, color, winner)

\* finalizeMove(color, tokenIndex, diceValue) run on the tokens tk.
finalizeMove(tk, color, diceValue) ==
    /\ tokens' = tk
    /\ currentPlayerIndex' = IF diceValue = 6 THEN currentPlayerIndex
                             ELSE getNextPlayerIndex
    /\ diceRoll' = NoDice
    /\ rollCount' = 0
    /\ isRolling' = FALSE
    /\ winner' = checkWin(tk, color, winner)

\* moveToken(color, tokenIndex, diceValue): builds the path, sets isRolling and
\* starts animateTokenMovement, which shifts the first step off the path and
\* arms the 160ms timer.  The two throws leave the state as it is.
moveToken(color, tokenIndex, diceValue) ==
    LET startPos == tokens[color][tokenIndex]
        path == MovePath(color, startPos, diceValue)
    IN  IF startPos = -1 /\ (diceValue # 6
                             \/ isOccupiedByPlayer(color, START_INDICES[color]))
        THEN UNCHANGED <<isRolling, anim>>
        ELSE /\ isRolling' = TRUE
             /\ anim' = [active |-> TRUE, color |-> color, token |-> tokenIndex,
                         from |-> startPos, stepPos |-> Head(path), steps |-> Tail(path),
                         dice |-> diceValue,
                         kill |-> MoveKills(color, startPos, diceValue)]

\* onRollDice without the diceRoll !== null test of its guard.
OnRollDice_NoPendingTest ==
    IF isRolling
    THEN /\ last' = [NoOp EXCEPT !.op = "rollRejected"]
         /\ UNCHANGED <<gameState, anim, passTimers, nRolls>>
    ELSE /\ nRolls < MaxRolls
         /\ \E roll \in DiceValues :
              /\ diceRoll' = roll
              /\ rollCount' = rollCount + 1
              /\ passTimers' = IF ~canAnyTokenMove(CurrentColor, roll)
                               THEN Append(passTimers, roll)
                               ELSE passTimers
              /\ last' = [NoOp EXCEPT !.op = "roll", !.color = CurrentColor,
                                      !.dice = roll]
         /\ nRolls' = nRolls + 1
         /\ UNCHANGED <<tokens, currentPlayerIndex, isRolling, winner, anim>>

\* onRollDice arming the auto-pass timer after every roll.
OnRollDice_AlwaysAutoPass ==
    IF isRolling \/ diceRoll # NoDice
    THEN /\ last' = [NoOp EXCEPT !.op = "rollRejected"]
         /\ UNCHANGED <<gameState, anim, passTimers, nRolls>>
    ELSE /\ nRolls < MaxRolls
         /\ \E roll \in DiceValues :
              /\ diceRoll' = roll
              /\ rollCount' = rollCount + 1
              /\ passTimers' = Append(passTimers, roll)
              /\ last' = [NoOp EXCEPT !.op = "roll", !.color = CurrentColor,
                                      !.dice = roll]
         /\ nRolls' = nRolls + 1
         /\ UNCHANGED <<tokens, currentPlayerIndex, isRolling, winner, anim>>

\* onRollDice without the branch that arms the auto-pass timer.
OnRollDice_NoAutoPass ==
    IF isRolling \/ diceRoll # NoDice
    THEN /\ last' = [NoOp EXCEPT !.op = "rollRejected"]
         /\ UNCHANGED <<gameState, anim, passTimers, nRolls>>
    ELSE /\ nRolls < MaxRolls
         /\ \E roll \in DiceValues :
              /\ diceRoll' = roll
              /\ rollCount' = rollCount + 1
              /\ passTimers' = passTimers
              /\ last' = [NoOp EXCEPT !.op = "roll", !.color = CurrentColor,
                                      !.dice = roll]
         /\ nRolls' = nRolls + 1
         /\ UNCHANGED <<tokens, currentPlayerIndex, isRolling, winner, anim>>

OnRollDice ==
    IF isRolling \/ diceRoll # NoDice
    THEN /\ last' = [NoOp EXCEPT !.op = "rollRejected"]
         /\ UNCHANGED <<gameState, anim, passTimers, nRolls>>
    ELSE /\ nRolls < MaxRolls
         /\ \E roll \in DiceValues :
              /\ diceRoll' = roll
              /\ rollCount' = rollCount + 1
              /\ passTimers' = IF ~canAnyTokenMove(CurrentColor, roll)
                               THEN Append(passTimers, roll)
                               ELSE passTimers
              /\ last' = [NoOp EXCEPT !.op = "roll", !.color = CurrentColor,
                                      !.dice = roll]
         /\ nRolls' = nRolls + 1
         /\ UNCHANGED <<tokens, currentPlayerIndex, isRolling, winner, anim>>

\* onTokenClick with its three early returns replaced by the test rejected.
ClickWith(color, index, rejected) ==
    IF rejected
    THEN /\ last' = [NoOp EXCEPT !.op = "clickRejected", !.color = color,
                                 !.token = index]
         /\ UNCHANGED <<gameState, anim, passTimers, nRolls>>
    ELSE /\ moveToken(color, index, diceRoll)
         /\ last' = [op |-> "click", color |-> color, token |-> index,
                     from |-> tokens[color][index], dice |-> diceRoll]
         /\ UNCHANGED <<tokens, currentPlayerIndex, diceRoll, rollCount, winner,
                        passTimers, nRolls>>

\* onTokenClick without the isRolling test.
OnTokenClick_NoBusyTest(color, index) ==
    ClickWith(color, index,
              \/ CurrentColor # color
              \/ diceRoll = NoDice
              \/ ~canMoveToken(color, tokens[color][index], diceRoll))

\* onTokenClick without the canMoveToken test.
OnTokenClick_NoLegalTest(color, index) ==
    ClickWith(color, index,
              \/ CurrentColor # color
              \/ isRolling \/ diceRoll = NoDice)

\* onTokenClick without the test of the clicked token's colour.
OnTokenClick_NoTurnTest(color, index) ==
    ClickWith(color, index,
              \/ isRolling \/ diceRoll = NoDice
              \/ ~canMoveToken(color, tokens[color][index], diceRoll))

OnTokenClick(color, index) ==
    IF \/ CurrentColor # color
       \/ isRolling \/ diceRoll = NoDice
       \/ ~canMoveToken(color, tokens[color][index], diceRoll)
    THEN /\ last' = [NoOp EXCEPT !.op = "clickRejected", !.color = color,
                                 !.token = index]
         /\ UNCHANGED <<gameState, anim, passTimers, nRolls>>
    ELSE /\ moveToken(color, index, diceRoll)
         /\ last' = [op |-> "click", color |-> color, token |-> index,
                     from |-> tokens[color][index], dice |-> diceRoll]
         /\ UNCHANGED <<tokens, currentPlayerIndex, diceRoll, rollCount, winner,
                        passTimers, nRolls>>

\* The 160ms timer with a completion callback that, whatever the move, sends
\* home every opponent standing on the number the moved token ends on.
AnimStep_KillsAlways ==
    /\ anim.active
    /\ LET stepped == [tokens EXCEPT ![anim.color][anim.token] = anim.stepPos]
       IN  IF Len(anim.steps) = 0
           THEN /\ finalizeMove(killAfterMove_AtLanding(stepped, anim.steps, anim.color),
                                anim.color, anim.dice)
                /\ anim' = NoAnim
                /\ last' = [op |-> "move", color |-> anim.color, token |-> anim.token,
                            from |-> anim.from, dice |-> anim.dice]
           ELSE /\ tokens' = stepped
                /\ anim' = [anim EXCEPT !.stepPos = Head(anim.steps),
                                        !.steps = Tail(anim.steps)]
                /\ last' = [op |-> "step", color |-> anim.color, token |-> anim.token,
                            from |-> anim.from, dice |-> anim.dice]
                /\ UNCHANGED <<currentPlayerIndex, diceRoll, rollCount, isRolling,
                               winner>>
    /\ UNCHANGED <<passTimers, nRolls>>

\* The 160ms timer of animateTokenMovement fires: it writes the step into the
\* token, and either arms the timer for the next step or, when the path is
\* used up, runs moveToken's completion callback.
AnimStep ==
    /\ anim.active
    /\ LET stepped == [tokens EXCEPT ![anim.color][anim.token] = anim.stepPos]
       IN  IF Len(anim.steps) = 0
           THEN /\ finalizeMove(IF anim.kill
                                THEN killAfterMove(stepped, anim.steps, anim.color)
                                ELSE stepped,
                                anim.color, anim.dice)
                /\ anim' = NoAnim
                /\ last' = [op |-> "move", color |-> anim.color, token |-> anim.token,
                            from |-> anim.from, dice |-> anim.dice]
           ELSE /\ tokens' = stepped
                /\ anim' = [anim EXCEPT !.stepPos = Head(anim.steps),
                                        !.steps = Tail(anim.steps)]
                /\ last' = [op |-> "step", color |-> anim.color, token |-> anim.token,
                            from |-> anim.from, dice |-> anim.dice]
                /\ UNCHANGED <<currentPlayerIndex, diceRoll, rollCount, isRolling,
                               winner>>
    /\ UNCHANGED <<passTimers, nRolls>>

\* The 1000ms timer armed by onRollDice fires: the turn is passed.
PassTimer ==
    /\ Len(passTimers) > 0
    /\ finalizeMove(tokens, CurrentColor, Head(passTimers))
    /\ passTimers' = Tail(passTimers)
    /\ last' = [NoOp EXCEPT !.op = "pass", !.color = CurrentColor,
                            !.dice = Head(passTimers)]
    /\ UNCHANGED <<anim, nRolls>>

Next ==
    \/ OnRollDice
    \/ \E color \in Colors, index \in TokenIdx : OnTokenClick(color, index)
    \/ AnimStep
    \/ PassTimer

Spec == Init /\ [][Next]_vars

\* A click onTokenClick accepts: it starts a move.
LegalClick ==
    \E color \in Colors, index \in TokenIdx :
        OnTokenClick(color, index) /\ isRolling'

\* The starting positions with at most one token of each colour on the main
\* path.
InitFair ==
    /\ Init
    /\ \A c \in Colors :
          Cardinality({k \in TokenIdx : tokens[c][k] \in 0..51}) <= 1

\* The game with its timers firing and the player whose turn it is choosing,
\* sooner or later, a token that may move when there is one.
SpecFair ==
    /\ InitFair
    /\ [][Next]_vars
    /\ WF_vars(AnimStep)
    /\ WF_vars(PassTimer)
    /\ WF_vars(LegalClick)

\* ---------------------------------------------------------------- typing

Positions == {-1} \cup (0..51) \cup (100..105)

TypeOK ==
    /\ tokens \in [Colors -> [TokenIdx -> Positions]]
    /\ currentPlayerIndex \in 0..3
    /\ diceRoll \in {NoDice} \cup DiceValues
    /\ rollCount \in 0..1
    /\ isRolling \in BOOLEAN
    /\ winner \in Colors \cup {NoWinner}
    /\ Len(passTimers) <= 1
    /\ nRolls \in 0..MaxRolls

\* ------------------------------------------------- the scenario of the spec

\* The winning scenario of the specification, set up as a test fixture would:
\* three yellow tokens finished, the fourth on Home(4), yellow to roll.
ScenarioBoards ==
    { [tokens |-> Board(InBase, InBase, InBase, <<105, 105, 105, 104>>), cur |-> 3],
      [tokens |-> Board(<<104, 105, 105, 105>>, InBase, InBase, InBase), cur |-> 0] }

InitScenario ==
    /\ \E b \in ScenarioBoards :
          /\ tokens = b.tokens
          /\ currentPlayerIndex = b.cur
    /\ diceRoll = NoDice
    /\ rollCount = 0
    /\ isRolling = FALSE
    /\ winner = NoWinner
    /\ anim = NoAnim
    /\ passTimers = <<>>
    /\ nRolls = 0
    /\ last = NoOp

SpecScenario == InitScenario /\ [][Next]_vars

\* ------------------------------------------------------------------ claims

\* The position of the token the last operation was about.
MovedPos == tokens[last.color][last.token]

NonSafeTrack == (0..51) \ {0, 8, 13, 21, 26, 34, 39, 47}

AllFinished(c) == \A i \in TokenIdx : tokens[c][i] = 105

\* C1: right after a move is finalized that leaves the moved token on a
\* non-safe track square, no token of another colour stands on that square.
C1_CapturePostcondition ==
    (last.op = "move" /\ MovedPos \in NonSafeTrack)
        => \A c \in Colors \ {last.color} : \A i \in TokenIdx :
              tokens[c][i] # MovedPos

C3_WinningMoveLegal ==
    \A c \in Colors : \A i \in TokenIdx :
        ( /\ CurrentColor = c
          /\ diceRoll = 1
          /\ ~isRolling
          /\ tokens[c][i] = 104
          /\ \A j \in TokenIdx \ {i} : tokens[c][j] = 105 )
        => canMoveToken(c, tokens[c][i], diceRoll)

\* A step that ends in finalizeMove: the last step of a move, or an auto-pass.
MoveFinalized == last'.op = "move" /\ last.op # "move"

PassFinalized == last'.op = "pass" /\ last.op # "pass"

\* C5: every finalizeMove, after a move or an auto-pass, keeps the player on a
\* dice of 6 and advances it by one modulo 4 on any other dice, and clears
\* the pending dice and the busy flag so that the next roll is accepted.
C5_TurnRule ==
    [][ (MoveFinalized \/ PassFinalized)
          => /\ diceRoll \in 1..6
             /\ currentPlayerIndex' = IF diceRoll = 6 THEN currentPlayerIndex
                                      ELSE (currentPlayerIndex + 1) % 4
             /\ diceRoll' = NoDice
             /\ rollCount' = 0
             /\ ~isRolling' ]_vars

\* C5 witness: a move with a 6 has been finalized and the mover is to roll.
C5_Witness ==
    /\ last.op = "move"
    /\ last.dice = 6
    /\ CurrentColor = last.color
    /\ diceRoll = NoDice
    /\ ~isRolling

\* C6: a finalized move whose destination is a safe track square or a home
\* square changes the position of no token of another colour.
C6_NoCaptureOnSafe ==
    [][ ( /\ MoveFinalized
          /\ \/ tokens'[last'.color][last'.token] \in {0, 8, 13, 21, 26, 34, 39, 47}
             \/ tokens'[last'.color][last'.token] >= 100 )
          => \A c \in Colors \ {last'.color} : tokens'[c] = tokens[c] ]_vars

\* C6 witness: a move has been finalized on a safe track square on which a
\* token of another colour stands.
C6_Witness ==
    /\ last.op = "move"
    /\ MovedPos \in {0, 8, 13, 21, 26, 34, 39, 47}
    /\ \E c \in Colors \ {last.color} : \E i \in TokenIdx : tokens[c][i] = MovedPos

\* C7: every non-safe track square holds tokens of at most one colour.
C7_Occupancy ==
    \A p \in NonSafeTrack :
        Cardinality({c \in Colors : \E i \in TokenIdx : tokens[c][i] = p}) <= 1

\* The destination of a token of colour c on Track(i) for a dice value, by the
\* decision table of the specification.
C8_Dest(c, i, dice) ==
    LET d == (HOME_ENTRY_INDICES[c] - i + 52) % 52
    IN  IF dice <= d THEN (i + dice) % 52 ELSE 100 + (dice - d - 1)

\* C8: a token on the track may move iff its destination (on the track up to
\* the home entry, in the home lane beyond it) holds no token of its colour,
\* and a finalized move from the track leaves the token on that destination.
C8_TrackMove ==
    /\ \A c \in Colors : \A k \in TokenIdx : \A dice \in 1..6 :
          tokens[c][k] \in 0..51 =>
             LET dest == C8_Dest(c, tokens[c][k], dice)
             IN  canMoveToken(c, tokens[c][k], dice)
                    <=> /\ \A j \in TokenIdx : tokens[c][j] # dest
                        /\ dest < 100 \/ dest - 100 <= 5
    /\ (last.op = "move" /\ last.from \in 0..51)
          => MovedPos = C8_Dest(last.color, last.from, last.dice)

\* C8 witness: a move from the track into the home lane has been finalized.
C8_Witness ==
    /\ last.op = "move"
    /\ last.from \in 0..51
    /\ MovedPos >= 100
    /\ \E k \in TokenIdx : \E dice \in 1..6 :
          /\ tokens[last.color][k] \in 0..51
          /\ ~canMoveToken(last.color, tokens[last.color][k], dice)

C9_Start == [red |-> 0, blue |-> 13, green |-> 26, yellow |-> 39]

\* C9: a token in the base may move iff the dice is 6 and no token of its
\* colour stands on the colour's start square, and the move puts it there.
C9_BaseLegality ==
    /\ \A c \in Colors : \A dice \in 1..6 :
          (\E k \in TokenIdx : tokens[c][k] = -1)
             => ( canMoveToken(c, -1, dice)
                    <=> /\ dice = 6
                        /\ \A j \in TokenIdx : tokens[c][j] # C9_Start[c] )
    /\ (last.op = "move" /\ last.from = -1)
          => last.dice = 6 /\ MovedPos = C9_Start[last.color]

\* C9 witness: a token has left the base onto a start square on which a
\* token of another colour stands.
C9_Witness ==
    /\ last.op = "move"
    /\ last.from = -1
    /\ MovedPos = C9_Start[last.color]
    /\ \E c \in Colors \ {last.color} : \E i \in TokenIdx : tokens[c][i] = MovedPos

\* C10: every position is Base, Track(0..51) or Home(0..5) in every state,
\* a token on Home(j) may move by a dice only if j + dice <= 5, and a token on
\* Home(5) has no legal move and never moves again.
C10_HomeBound ==
    /\ [] ( /\ \A c \in Colors : \A k \in TokenIdx :
                 tokens[c][k] \in {-1} \cup (0..51) \cup (100..105)
            /\ \A c \in Colors : \A k \in TokenIdx : \A dice \in 1..6 :
                 (tokens[c][k] >= 100 /\ canMoveToken(c, tokens[c][k], dice))
                    => (tokens[c][k] - 100) + dice <= 5 )
    /\ [][ \A c \in Colors : \A k \in TokenIdx :
              tokens[c][k] = 105 => tokens'[c][k] = 105 ]_vars

\* C10 witness: the colour that rolled has a token on Home(5) and a token
\* on Home(j) with j + dice > 5, and neither of them may move.
C10_Witness ==
    /\ last.op = "roll"
    /\ diceRoll = last.dice
    /\ \E k \in TokenIdx :
          /\ tokens[last.color][k] = 105
          /\ ~canMoveToken(last.color, 105, diceRoll)
    /\ \E j \in TokenIdx :
          /\ tokens[last.color][j] \in 100..104
          /\ (tokens[last.color][j] - 100) + diceRoll > 5
          /\ ~canMoveToken(last.color, tokens[last.color][j], diceRoll)

\* A handler call that was turned down.
Rejected == last'.op \in {"rollRejected", "clickRejected"}

NothingChanged == gameState' = gameState /\ anim' = anim /\ passTimers' = passTimers

\* C11: while a move is in flight (isRolling) every roll and every click is
\* rejected and changes nothing, and until the move is finalized the only
\* change is the position of the moving token.
C11_SingleFlight ==
    [][ isRolling
          => /\ last'.op \in {"rollRejected", "clickRejected", "step", "move"}
             /\ Rejected => NothingChanged
             /\ isRolling'
                  => /\ UNCHANGED <<currentPlayerIndex, diceRoll, rollCount, winner>>
                     /\ \A c \in Colors : \A k \in TokenIdx :
                           tokens'[c][k] # tokens[c][k]
                              => c = anim.color /\ k = anim.token ]_vars

\* C11 witness: in the middle of a move the player to move has clicked a
\* token that the pending dice could move, and the click was rejected.
C11_Witness ==
    /\ isRolling
    /\ tokens[anim.color][anim.token] # anim.from
    /\ last.op = "clickRejected"
    /\ last.color = CurrentColor
    /\ canMoveToken(last.color, tokens[last.color][last.token], diceRoll)

\* C12: onRollDice changes nothing while a dice is pending or a move is in
\* flight; otherwise it sets diceRoll to a value in 1..6 and increments
\* rollCount.
C12_RollGuard ==
    [][ /\ last'.op = "rollRejected"
          => (isRolling \/ diceRoll # NoDice) /\ NothingChanged
        /\ (isRolling \/ diceRoll # NoDice) => nRolls' = nRolls
        /\ nRolls' # nRolls
          => /\ last'.op = "roll"
             /\ diceRoll' \in 1..6
             /\ rollCount' = rollCount + 1
             /\ UNCHANGED <<tokens, currentPlayerIndex, isRolling, winner>> ]_vars

\* C12 witness: a roll was rejected while a dice was pending and no move
\* was in flight.
C12_Witness ==
    /\ last.op = "rollRejected"
    /\ diceRoll # NoDice
    /\ ~isRolling

\* A call of onTokenClick, accepted or not, and the token it was for.
Clicked == last'.op \in {"click", "clickRejected"}

ClickedPos == tokens[last'.color][last'.token]

\* C13: a click on a token that canMoveToken does not let move by the pending
\* dice is rejected and changes nothing.
C13_IllegalMoveNoChange ==
    [][ ( /\ Clicked
          /\ diceRoll \in 1..6
          /\ ~canMoveToken(last'.color, ClickedPos, diceRoll) )
          => last'.op = "clickRejected" /\ NothingChanged ]_vars

\* C13 witness: with a dice pending and no move in flight the player to move
\* clicked a token that may not move, while another of its tokens may.
C13_Witness ==
    /\ last.op = "clickRejected"
    /\ last.color = CurrentColor
    /\ ~isRolling
    /\ diceRoll # NoDice
    /\ ~canMoveToken(last.color, tokens[last.color][last.token], diceRoll)
    /\ \E k \in TokenIdx : canMoveToken(last.color, tokens[last.color][k], diceRoll)

\* C14: a click on a token whose colour is not the colour to move is rejected
\* and changes nothing, whatever the dice and the token's position.
C14_OutOfTurn ==
    [][ (Clicked /\ last'.color # CurrentColor)
          => last'.op = "clickRejected" /\ NothingChanged ]_vars

\* C14 witness: a token of another colour was clicked that the pending dice
\* could move if it were that colour's turn, and the click was rejected.
C14_Witness ==
    /\ last.op = "clickRejected"
    /\ last.color # CurrentColor
    /\ ~isRolling
    /\ diceRoll # NoDice
    /\ canMoveToken(last.color, tokens[last.color][last.token], diceRoll)

\* C15: an auto-pass happens only when no token of the player to move can
\* move; it changes no token position and no winner, clears the pending dice
\* and the roll counter, and keeps the player on a 6 and advances it otherwise.
C15_PassFrame ==
    [][ PassFinalized
          => /\ \A k \in TokenIdx :
                   ~canMoveToken(CurrentColor, tokens[CurrentColor][k], diceRoll)
             /\ tokens' = tokens
             /\ winner' = winner
             /\ isRolling' = isRolling
             /\ diceRoll' = NoDice
             /\ rollCount' = 0
             /\ currentPlayerIndex' = IF diceRoll = 6 THEN currentPlayerIndex
                                      ELSE (currentPlayerIndex + 1) % 4 ]_vars

\* C15 witness: a colour with a finished token has passed on a 6 and is to
\* roll again.
C15_Witness ==
    /\ last.op = "pass"
    /\ last.dice = 6
    /\ CurrentColor = last.color
    /\ diceRoll = NoDice
    /\ \E k \in TokenIdx : tokens[last.color][k] = 105

\* C16: for every colour and dice canAnyTokenMove is true iff canMoveToken is
\* true for one of the colour's tokens, and a roll has armed the auto-pass
\* exactly when no token of the roller may move.
C16_AnyLegalAgrees ==
    /\ \A c \in Colors : \A dice \in 1..6 :
          canAnyTokenMove(c, dice)
             <=> \E k \in TokenIdx : canMoveToken(c, tokens[c][k], dice)
    /\ last.op = "roll"
          => ( Len(passTimers) > 0
                 <=> ~\E k \in TokenIdx :
                        canMoveToken(CurrentColor, tokens[CurrentColor][k], diceRoll) )

\* C16 witness: a 6 was rolled by a colour with a token in the base that may
\* not leave it, its start square holding an own token that may move.
C16_Witness ==
    /\ last.op = "roll"
    /\ diceRoll = 6
    /\ \E k \in TokenIdx : tokens[CurrentColor][k] = -1
    /\ ~canMoveToken(CurrentColor, -1, 6)
    /\ canAnyTokenMove(CurrentColor, 6)
    /\ Len(passTimers) = 0

\* The square after p for colour c: out of the base onto the start square,
\* round the track up to the home entry, then up the home lane.
C17_After(c, p) ==
    IF p = -1 THEN C9_Start[c]
    ELSE IF p \in 0..51 THEN (IF p = HOME_ENTRY_INDICES[c] THEN 100 ELSE (p + 1) % 52)
    ELSE p + 1

\* C17: the step sequence of every move the pending dice allows the current
\* colour has dice entries (one, the start square, out of the base), each the
\* square after the one before, and ends on the destination; red on Track(47) with a 6 walks 48, 49, 50, Home(0),
\* Home(1), Home(2); a move in flight walks this sequence step by step.
C17_StepSequence ==
    /\ MovePath("red", 47, 6) = <<48, 49, 50, 100, 101, 102>>
    /\ diceRoll # NoDice =>
          \A k \in TokenIdx :
             LET c == CurrentColor
                 pos == tokens[c][k]
                 path == MovePath(c, pos, diceRoll)
             IN  canMoveToken(c, pos, diceRoll) =>
                    /\ Len(path) = IF pos = -1 THEN 1 ELSE diceRoll
                    /\ path[1] = C17_After(c, pos)
                    /\ \A i \in 1..(Len(path) - 1) : path[i + 1] = C17_After(c, path[i])
                    /\ pos \in 0..51 => path[Len(path)] = C8_Dest(c, pos, diceRoll)
                    /\ pos >= 100 => path[Len(path)] = pos + diceRoll
    /\ anim.active =>
          LET path == MovePath(anim.color, anim.from, anim.dice)
              done == Len(path) - Len(anim.steps) - 1
          IN  /\ <<anim.stepPos>> \o anim.steps = SubSeq(path, done + 1, Len(path))
              /\ tokens[anim.color][anim.token]
                    = IF done = 0 THEN anim.from ELSE path[done]
    /\ last.op = "move" =>
          LET path == MovePath(last.color, last.from, last.dice)
          IN  MovedPos = path[Len(path)]

\* C17 witness: red's token has moved from Track(47) by a 6 to Home(2).
C17_Witness ==
    /\ last.op = "move"
    /\ last.color = "red"
    /\ last.from = 47
    /\ last.dice = 6
    /\ MovedPos = 102

\* C19: whenever no move is in flight, two tokens of one colour stand on the
\* same number only if both are in the base.
C19_NoOwnStack ==
    ~isRolling =>
        \A c \in Colors : \A i, j \in TokenIdx :
            (i # j /\ tokens[c][i] = tokens[c][j]) => tokens[c][i] = -1

\* C19 witness: a move has ended whose path ran over a square holding another
\* token of the mover's colour, and a further own token stands where a roll
\* would have taken the moved one.
C19_Witness ==
    /\ last.op = "move"
    /\ ~isRolling
    /\ LET path == MovePath(last.color, last.from, last.dice)
       IN  \E j \in TokenIdx :
              /\ j # last.token
              /\ \E n \in 1..(Len(path) - 1) : path[n] = tokens[last.color][j]
    /\ \E j \in TokenIdx : \E dice \in 1..6 :
          /\ j # last.token
          /\ MovedPos \in 0..51
          /\ tokens[last.color][j] = C8_Dest(last.color, MovedPos, dice)

\* C20: a token on the home path changes position only as the token of the
\* move in flight, and then to a higher home index: no step of any other
\* token moves it, and it never goes back to the base.
C20_HomeNeverCaptured ==
    [][ \A c \in Colors : \A i \in TokenIdx :
          (tokens[c][i] >= 100 /\ tokens'[c][i] # tokens[c][i])
             => /\ anim.active
                /\ anim.color = c
                /\ anim.token = i
                /\ tokens'[c][i] > tokens[c][i]
                /\ tokens'[c][i] <= 105 ]_vars

\* C20 witness: a move has ended on a home index that a token of another
\* colour holds under the same number.
C20_Witness ==
    /\ last.op = "move"
    /\ MovedPos >= 100
    /\ \E c \in Colors : \E i \in TokenIdx :
          c # last.color /\ tokens[c][i] = MovedPos

\* A token of the current colour may move by the pending dice.
C18_LegalExists ==
    \E k \in TokenIdx : canMoveToken(CurrentColor, tokens[CurrentColor][k], diceRoll)

\* No dice pending, no move in flight, no timer armed.
C18_AwaitingRoll ==
    diceRoll = NoDice /\ ~isRolling /\ ~anim.active /\ Len(passTimers) = 0

\* Something is about to resolve a pending roll: a move is in flight exactly
\* when isRolling is set, and a pending roll with no move in flight has either
\* a token the player may choose or the auto-pass timer armed, never both.
C18_NotStuck ==
    /\ isRolling <=> anim.active
    /\ isRolling => diceRoll # NoDice
    /\ (diceRoll # NoDice /\ ~isRolling)
          => (C18_LegalExists <=> Len(passTimers) = 0)
    /\ Len(passTimers) > 0
          => /\ passTimers = <<diceRoll>>
             /\ ~isRolling

\* C18: every roll is resolved: no reachable state is stuck, a pending roll
\* with no legal move is changed by nothing but the auto-pass timer, and from
\* every state with a dice value pending the game comes to a state with no
\* dice pending and no move in flight.
C18_RollResolved ==
    /\ []C18_NotStuck
    /\ [][ (diceRoll # NoDice /\ ~isRolling /\ ~C18_LegalExists)
              => (NothingChanged \/ PassFinalized) ]_vars
    /\ (diceRoll # NoDice) ~> C18_AwaitingRoll

\* C18 witness: a roll that left no token to move has been resolved by the
\* auto-pass timer.
C18_Witness ==
    /\ last.op = "pass"
    /\ nRolls >= 1
    /\ C18_AwaitingRoll

\* A step in which finalizeMove has run.
C21_Finalized == MoveFinalized \/ PassFinalized

\* C21: a roll is resolved exactly once.  onRollDice accepts a roll only with
\* nothing left over from the roll before, finalizeMove runs only on a pending
\* dice and leaves no timer behind that would run it again, the dice changes
\* only by a roll and by finalizeMove, the turn moves only in finalizeMove and
\* by one seat, and between the two only the one chosen token walks.
C21_ResolvedOnce ==
    [][ /\ C21_Finalized
           => /\ diceRoll # NoDice
              /\ diceRoll' = NoDice
              /\ ~anim'.active
              /\ passTimers' = <<>>
              /\ MoveFinalized => (anim.active /\ Len(passTimers) = 0)
              /\ PassFinalized => (~anim.active /\ tokens' = tokens)
        /\ nRolls' # nRolls
           => /\ diceRoll = NoDice
              /\ diceRoll' # NoDice
              /\ ~anim.active
              /\ passTimers = <<>>
        /\ diceRoll' # diceRoll => (C21_Finalized \/ nRolls' # nRolls)
        /\ currentPlayerIndex' # currentPlayerIndex
           => /\ C21_Finalized
              /\ currentPlayerIndex' = (currentPlayerIndex + 1) % 4
        /\ (~anim.active /\ anim'.active)
           => /\ diceRoll # NoDice
              /\ anim'.dice = diceRoll
              /\ anim'.color = CurrentColor
              /\ Len(passTimers) = 0
        /\ (anim.active /\ anim'.active)
           => /\ anim'.color = anim.color
              /\ anim'.token = anim.token
              /\ anim'.dice = anim.dice
        /\ \A c \in Colors : \A i \in TokenIdx :
              tokens'[c][i] # tokens[c][i]
                 => /\ anim.active
                    /\ \/ c = anim.color /\ i = anim.token
                       \/ c # anim.color /\ tokens'[c][i] = -1 ]_vars

\* C21 witness: the second roll of a game has been resolved by a move, the
\* first one by a move or an auto-pass before it.
C21_Witness ==
    /\ last.op = "move"
    /\ nRolls >= 2
    /\ diceRoll = NoDice
    /\ ~isRolling

\* C22: no colour ever has two tokens on Home(5): once it has one there,
\* canMoveToken refuses the one dice value that would take a token from the
\* home entry or from a home square to Home(5); checkWin's condition is never
\* met and winner stays unset.
C22_OneFinished ==
    [] ( /\ \A c \in Colors : \A i, j \in TokenIdx :
               (tokens[c][i] = 105 /\ tokens[c][j] = 105) => i = j
         /\ \A c \in Colors :
               (\E j \in TokenIdx : tokens[c][j] = 105)
                  => /\ ~canMoveToken(c, HOME_ENTRY_INDICES[c], 6)
                     /\ \A p \in 100..104 : ~canMoveToken(c, p, 105 - p)
         /\ \A c \in Colors : checkWin(tokens, c, NoWinner) = NoWinner
         /\ winner = NoWinner )

\* C22 witness: a token has finished, and another token of its colour stands
\* in the home lane, its exact dice to Home(5) refused.
C22_Witness ==
    /\ last.op = "move"
    /\ MovedPos = 105
    /\ \E j \in TokenIdx :
          /\ j # last.token
          /\ tokens[last.color][j] \in 100..104
          /\ ~canMoveToken(last.color, tokens[last.color][j],
                           105 - tokens[last.color][j])

\* C23: a token on the main path is at most 50 squares past its colour's
\* start square, in the steps of a move in flight as well: it never stands
\* on the square after its home entry.
C23_NoLap ==
    [] ( \A c \in Colors : \A i \in TokenIdx :
             tokens[c][i] \in 0..51 =>
                 /\ (tokens[c][i] - START_INDICES[c] + 52) % 52 <= 50
                 /\ tokens[c][i] # (HOME_ENTRY_INDICES[c] + 1) % 52 )

\* C23 witness: a token in flight stands on its home entry and its next step
\* is Home(0).
C23_Witness ==
    /\ anim.active
    /\ tokens[anim.color][anim.token] = HOME_ENTRY_INDICES[anim.color]
    /\ anim.stepPos = 100

=============================================================================
